---- MODULE Spec2Model ----
(***************************************************************************)
(* omni_var: transactional and session variables                           *)
(* (src/extensions/omni_var/omni_var.c).                                   *)
(*                                                                         *)
(* The module's statics (last_used_txnid, current_tab, session_tab and the *)
(* two *_registered flags) are the program state.  The host's transaction  *)
(* manager is the environment: it opens and closes top-level transactions  *)
(* and subtransactions, hands out transaction ids, owns the two memory     *)
(* contexts the tables live in, and delivers the lifecycle events to the   *)
(* callbacks the module registered.                                        *)
(***************************************************************************)
EXTENDS Integers, Sequences, FiniteSets, TLC

\* ---------------------------------------------------------------- bounds
\* Subtransaction ids handed out within one top-level transaction.
MaxSubId == 3
\* Transaction ids handed out within the session.
MaxXid == 2

\* ------------------------------------------------------------- constants
InvalidTransactionId == 0
TopSubTransactionId == 1
\* The host version the module is built for.
PG_MAJORVERSION_NUM == 16

InvalidOid == "InvalidOid"
Names == {"x", "y"}

\* ------------------------------------------------------------ type system
\* Three types, one of each storage class the code distinguishes:
\* int4 (by value), macaddr (by reference, fixed length), text (varlena).
get_typbyval(oid) == oid = "int4"

get_typlen(oid) == CASE oid = "int4" -> 4
                     [] oid = "macaddr" -> 6
                     [] OTHER -> -1

\* A Datum.  ctx says where the bytes live: "inline" (the Datum is the
\* value), "caller" (the short-lived memory of the calling statement),
\* or the memory context a copy was made in; "uninit" is a Datum field
\* that was never assigned.  A varlena is "plain" or "compressed"; bytes
\* is what it reads as once detoasted.
Inline(n) == [ctx |-> "inline", form |-> "fixed", bytes |-> <<n>>]

ByRef(form, b) == [ctx |-> "caller", form |-> form, bytes |-> b]

UninitDatum == [ctx |-> "uninit", form |-> "fixed", bytes |-> <<>>]

NullDatum == Inline(0)

Arg(oid, isnull, datum) == [oid |-> oid, isnull |-> isnull, datum |-> datum]

Mac == <<1, 2, 3, 4, 5, 6>>

\* The calls of set, <<name, value>>, of the specification of the whole
\* module: one variable, written with a by-reference null and a
\* compressed varlena.
SetCalls ==
  { <<"x", Arg("text", TRUE, NullDatum)>>,
    <<"x", Arg("text", FALSE, ByRef("compressed", <<7>>))>> }

\* The calls of set of the specification of the transactional store: two
\* variables, one of them written with a by-value value and a null.
TxnSetCalls ==
  { <<"x", Arg("int4", FALSE, Inline(1))>>,
    <<"x", Arg("text", TRUE, NullDatum)>>,
    <<"y", Arg("text", FALSE, ByRef("compressed", <<7>>))>> }

\* The calls of get, <<name, default>>.
GetCalls ==
  { <<"x", Arg("int4", FALSE, Inline(9))>>,
    <<"x", Arg("text", FALSE, ByRef("plain", <<8>>))>>,
    <<"y", Arg("text", FALSE, ByRef("plain", <<8>>))>>,
    <<"y", Arg("int4", TRUE, NullDatum)>> }

\* The calls of set_session: a fixed-length by-reference value and a
\* by-value null.
SessionSetCalls ==
  { <<"x", Arg("macaddr", FALSE, ByRef("fixed", Mac))>>,
    <<"x", Arg("int4", TRUE, NullDatum)>> }

\* The calls of get_session.
SessionGetCalls ==
  { <<"x", Arg("macaddr", FALSE, ByRef("fixed", <<6, 5, 4, 3, 2, 1>>))>>,
    <<"x", Arg("text", TRUE, NullDatum)>> }

\* The value argument whose type the call site does not resolve.
UnresolvedArg == Arg(InvalidOid, FALSE, Inline(1))

\* The varlena stored as the pointer the caller passed, no copy made.
detoast_no_copy(d, ctx) == d

\* PG_DETOAST_DATUM_COPY: a plain copy of the whole varlena in ctx.
detoast_copy(d, ctx) == [ctx |-> ctx, form |-> "plain", bytes |-> d.bytes]

\* palloc(typlen) + memcpy(ptr, src, typlen).
memcpy_copy(d, typlen, ctx) ==
  [ctx |-> ctx, form |-> d.form,
   bytes |-> [i \in 1..typlen |-> d.bytes[i]]]

\* The value field of a VariableValue after set / set_session stored arg
\* in it.  A by-reference null leaves the field unassigned: what it holds
\* is not a value of the variable, and every read of it is under !isnull.
StoredDatum(arg, ctx) ==
  IF get_typbyval(arg.oid) THEN arg.datum
  ELSE IF ~arg.isnull
       THEN IF get_typlen(arg.oid) = -1 THEN detoast_copy(arg.datum, ctx)
            ELSE memcpy_copy(arg.datum, get_typlen(arg.oid), ctx)
       ELSE UninitDatum

\* ------------------------------------------------------------------ state
VARIABLES
  \* host: the transaction manager
  xact_state,          \* "idle", "inprogress" or "crashed"
  top_xid,             \* xid of the top-level transaction, 0 while unassigned
  next_xid,            \* next xid to hand out
  sub_stack,           \* ids of the open subtransactions, outermost first
  sub_counter,         \* currentSubTransactionId: last subtransaction id used
  xact_callbacks,      \* entries of transaction_callback in the host's list
  subxact_callbacks,   \* entries of subtransaction_callback in the host's list
  TopTransactionContext, \* <<>> or <<table>>: the table allocated in it
  \* the module's statics
  last_used_txnid,
  current_tab,         \* <<>> (NULL) or <<address>>
  subtransaction_callback_registered,
  transaction_callback_registered,
  session_tab,         \* <<>> (NULL) or <<table>> in TopMemoryContext
  \* observation
  \* history
  res,                 \* the last call or event, its outcome, what it found
  saved,               \* per open subtransaction: what get saw when it opened
  written,             \* the names set in the active top-level transaction
  last_set,            \* per name: the latest set not aborted since
  session_last         \* the latest set_session

host == <<xact_state, top_xid, next_xid, sub_stack, sub_counter,
          xact_callbacks, subxact_callbacks>>

statics == <<last_used_txnid, current_tab, subtransaction_callback_registered,
             transaction_callback_registered, session_tab>>

history == <<saved, written, last_set, session_last>>

vars == <<host, TopTransactionContext, statics, res, history>>

NULL == <<>>

NullName == "<null>"

NoVars == [n \in Names |-> <<>>]

\* hash_create: an empty table at address addr.
hash_create(addr) == [addr |-> addr, vars |-> NoVars]

\* A VariableValue of a transactional variable; previous is the next
\* element of the chain (NULL for the last).
VariableValue(isnull, oid, subxactid, value) ==
  [isnull |-> isnull, oid |-> oid, subxactid |-> subxactid, value |-> value]

\* Session values allocated in the transaction's memory context.
session_context_of_transaction == "TopTransactionContext"

\* The memory context set_session allocates in.
session_context == "TopMemoryContext"

\* A VariableValue of a session variable: subxactid is never assigned,
\* previous is "NULL" or was never assigned.
SessionValue(isnull, oid, value, previous) ==
  [isnull |-> isnull, oid |-> oid, value |-> value, previous |-> previous]

\* current_tab points into freed memory.
Dangling ==
  /\ current_tab # NULL
  /\ \/ TopTransactionContext = <<>>
     \/ TopTransactionContext[1].addr # current_tab[1]

\* What memory that holds no table of this transaction reads as.
FreedTable ==
  [addr |-> InvalidTransactionId,
   vars |-> [n \in Names |->
               <<VariableValue(FALSE, "int4", InvalidTransactionId,
                               Inline(InvalidTransactionId))>>]]

\* *current_tab
Tab == IF current_tab = NULL \/ Dangling THEN FreedTable
       ELSE TopTransactionContext[1]

\* GetCurrentSubTransactionId()
GetCurrentSubTransactionId == sub_stack[Len(sub_stack)]

\* An error was raised and the host has not yet aborted the
\* (sub)transaction it was raised in.
Failed == res.status = "error"

NoCall == [op |-> "none", status |-> "ok"]

Init ==
  /\ xact_state = "idle"
  /\ top_xid = InvalidTransactionId
  /\ next_xid = 1
  /\ sub_stack = <<>>
  /\ sub_counter = 0
  /\ xact_callbacks = 0
  /\ subxact_callbacks = 0
  /\ TopTransactionContext = <<>>
  /\ last_used_txnid = InvalidTransactionId
  /\ current_tab = NULL
  /\ subtransaction_callback_registered = FALSE
  /\ transaction_callback_registered = FALSE
  /\ session_tab = NULL
  /\ res = NoCall
  /\ saved = <<>>
  /\ written = {}
  /\ last_set = NoVars
  /\ session_last = <<>>


\* ------------------------------------------------------ the two callbacks
RECURSIVE unwind_strict(_, _, _)
\* unwind with the comparison > in place of >=.
unwind_strict(chain, i, xact_id) ==
  IF chain[i].subxactid > xact_id
  THEN IF i = Len(chain) THEN <<>>
       ELSE unwind_strict(chain, i + 1, xact_id)
  ELSE SubSeq(chain, i, Len(chain))

RECURSIVE unwind_keeps_last(_, _, _)
\* unwind without the HASH_REMOVE of a variable left with no value.
unwind_keeps_last(chain, i, xact_id) ==
  IF chain[i].subxactid >= xact_id
  THEN IF i = Len(chain) THEN SubSeq(chain, i, Len(chain))
       ELSE unwind_keeps_last(chain, i + 1, xact_id)
  ELSE SubSeq(chain, i, Len(chain))

\* unwind going up the chain once instead of looping.
unwind_one_step(chain, i, xact_id) ==
  IF chain[i].subxactid >= xact_id
  THEN IF i = Len(chain) THEN <<>>
       ELSE SubSeq(chain, i + 1, Len(chain))
  ELSE SubSeq(chain, i, Len(chain))

RECURSIVE unwind(_, _, _)
\* The inner loop of the abort handler, vvar being element i of the chain
\* of one variable: the chain the variable is left with (<<>>: removed).
unwind(chain, i, xact_id) ==
  IF chain[i].subxactid >= xact_id
  THEN IF i = Len(chain) THEN <<>>
       ELSE unwind(chain, i + 1, xact_id)
  ELSE SubSeq(chain, i, Len(chain))

\* subtransaction_callback unwinding on every event, not on aborts alone.
subtransaction_callback_any_event(event, xact_id, tab) ==
  [tab EXCEPT !.vars =
     [n \in Names |-> IF tab.vars[n] = <<>> THEN <<>>
                      ELSE unwind(tab.vars[n], 1, xact_id)]]

\* subtransaction_callback on the table tab (current_tab is not NULL).
subtransaction_callback(event, xact_id, tab) ==
  IF event = "SUBXACT_EVENT_ABORT_SUB"
  THEN [tab EXCEPT !.vars =
          [n \in Names |-> IF tab.vars[n] = <<>> THEN <<>>
                           ELSE unwind(tab.vars[n], 1, xact_id)]]
  ELSE tab

\* The registration state: the two flags and the host's two lists.
Registration ==
  [sub_flag |-> subtransaction_callback_registered,
   xact_flag |-> transaction_callback_registered,
   sub_list |-> subxact_callbacks,
   xact_list |-> xact_callbacks]

TopLevelEnd ==
  {"XACT_EVENT_ABORT", "XACT_EVENT_COMMIT", "XACT_EVENT_PARALLEL_ABORT",
   "XACT_EVENT_PARALLEL_COMMIT"}

\* transaction_callback clearing the flags without unregistering.
transaction_callback_keeps_subscription(event, reg) ==
  IF event \in TopLevelEnd
  THEN [reg EXCEPT !.sub_flag = FALSE, !.xact_flag = FALSE]
  ELSE reg

\* transaction_callback: the registration state it leaves.
transaction_callback(event, reg) ==
  IF event \in TopLevelEnd
  THEN LET r1 == IF reg.sub_flag
                 THEN [reg EXCEPT !.sub_list = IF @ > 0 THEN @ - 1 ELSE 0,
                                  !.sub_flag = FALSE]
                 ELSE reg
       IN IF r1.xact_flag /\ PG_MAJORVERSION_NUM >= 16
          THEN [r1 EXCEPT !.xact_list = IF @ > 0 THEN @ - 1 ELSE 0,
                          !.xact_flag = FALSE]
          ELSE r1
  ELSE reg

\* ------------------------------------------------------------- what get sees
\* A store is bound to the active top-level transaction.
Bound == top_xid # InvalidTransactionId /\ last_used_txnid = top_xid

\* The chain of name n in the store of the active transaction.
Chain(n) == IF Bound THEN Tab.vars[n] ELSE <<>>

Visible(e) == [isnull |-> e.isnull, oid |-> e.oid, value |-> e.value]

\* What get reads for each name: <<>> (absent) or the head's value.
View == [n \in Names |-> IF Chain(n) = <<>> THEN <<>>
                         ELSE <<Visible(Chain(n)[1])>>]

\* ------------------------------------------------------------ host events
\* The host runs the subtransaction callbacks it has in its list.  With
\* current_tab dangling the handler walks freed memory: it may find
\* nothing to change, or the backend crashes.
CallSubXactCallbacks(event, xact_id) ==
  IF subxact_callbacks = 0 \/ current_tab = NULL
  THEN UNCHANGED <<TopTransactionContext, xact_state>>
  ELSE IF Dangling
  THEN /\ UNCHANGED TopTransactionContext
       /\ IF event = "SUBXACT_EVENT_ABORT_SUB"
          THEN xact_state' \in {xact_state, "crashed"}
          ELSE UNCHANGED xact_state
  ELSE /\ TopTransactionContext' = <<subtransaction_callback(event, xact_id, Tab)>>
       /\ UNCHANGED xact_state

StartTransaction ==
  /\ xact_state = "idle"
  /\ xact_state' = "inprogress"
  /\ top_xid' = InvalidTransactionId
  /\ sub_stack' = <<TopSubTransactionId>>
  /\ sub_counter' = TopSubTransactionId
  /\ saved' = <<NoVars>>
  /\ written' = {}
  /\ res' = [op |-> "begin", status |-> "ok"]
  /\ UNCHANGED <<next_xid, xact_callbacks, subxact_callbacks,
                 TopTransactionContext, statics, last_set, session_last>>

\* A statement other than set that writes: the host assigns the xid.
AssignTransactionId ==
  /\ xact_state = "inprogress" /\ ~Failed
  /\ top_xid = InvalidTransactionId
  /\ next_xid <= MaxXid
  /\ top_xid' = next_xid
  /\ next_xid' = next_xid + 1
  /\ res' = [op |-> "assign_xid", status |-> "ok"]
  /\ UNCHANGED <<xact_state, sub_stack, sub_counter, xact_callbacks,
                 subxact_callbacks, TopTransactionContext, statics, history>>

StartSubTransaction ==
  /\ xact_state = "inprogress" /\ ~Failed
  /\ sub_counter < MaxSubId
  /\ sub_counter' = sub_counter + 1
  /\ sub_stack' = Append(sub_stack, sub_counter + 1)
  /\ saved' = Append(saved, View)
  /\ CallSubXactCallbacks("SUBXACT_EVENT_START_SUB", sub_counter + 1)
  /\ res' = [op |-> "start_sub", status |-> "ok", id |-> sub_counter + 1]
  /\ UNCHANGED <<top_xid, next_xid, xact_callbacks, subxact_callbacks,
                 statics, written, last_set, session_last>>

Pop(q) == SubSeq(q, 1, Len(q) - 1)

\* RELEASE SAVEPOINT: the subtransaction's work becomes its parent's.
CommitSubTransaction ==
  /\ xact_state = "inprogress" /\ ~Failed
  /\ Len(sub_stack) > 1
  /\ sub_stack' = Pop(sub_stack)
  /\ saved' = Pop(saved)
  /\ CallSubXactCallbacks("SUBXACT_EVENT_COMMIT_SUB", GetCurrentSubTransactionId)
  /\ res' = [op |-> "commit_sub", status |-> "ok",
             id |-> GetCurrentSubTransactionId]
  /\ UNCHANGED <<top_xid, next_xid, sub_counter, xact_callbacks,
                 subxact_callbacks, statics, written, last_set, session_last>>

\* session_last once the subtransactions with ids >= id have ended.
SessionWriterEnded(id, aborted) ==
  IF session_last # <<>> /\ session_last[1].sub # 0
     /\ session_last[1].sub >= id
  THEN <<[session_last[1] EXCEPT !.sub = 0, !.aborted = aborted]>>
  ELSE session_last

\* The innermost subtransaction aborts (ROLLBACK TO, or an error in it).
AbortSubTransaction ==
  /\ xact_state = "inprogress"
  /\ Len(sub_stack) > 1
  /\ sub_stack' = Pop(sub_stack)
  /\ saved' = Pop(saved)
  /\ CallSubXactCallbacks("SUBXACT_EVENT_ABORT_SUB", GetCurrentSubTransactionId)
  /\ res' = [op |-> "abort_sub", status |-> "ok",
             id |-> GetCurrentSubTransactionId,
             before |-> saved[Len(saved)],
             chains |-> [n \in Names |-> Chain(n)]]
  /\ last_set' = [n \in Names |->
                    IF /\ last_set[n] # <<>>
                       /\ last_set[n][1].sub >= GetCurrentSubTransactionId
                    THEN <<>> ELSE last_set[n]]
  /\ session_last' = SessionWriterEnded(GetCurrentSubTransactionId, TRUE)
  /\ UNCHANGED <<top_xid, next_xid, sub_counter, xact_callbacks,
                 subxact_callbacks, statics, written>>

\* The host runs the transaction callbacks it has in its list.
CallXactCallbacks(event) ==
  LET reg == IF xact_callbacks > 0
             THEN transaction_callback(event, Registration)
             ELSE Registration
  IN /\ subtransaction_callback_registered' = reg.sub_flag
     /\ transaction_callback_registered' = reg.xact_flag
     /\ subxact_callbacks' = reg.sub_list
     /\ xact_callbacks' = reg.xact_list

\* An event of the top-level transaction that does not end it.
XactEvent(event) ==
  /\ xact_state = "inprogress" /\ ~Failed
  /\ Len(sub_stack) = 1
  /\ CallXactCallbacks(event)
  /\ res' = [op |-> "xact_event", status |-> "ok", event |-> event]
  /\ UNCHANGED <<xact_state, top_xid, next_xid, sub_stack, sub_counter,
                 TopTransactionContext, last_used_txnid, current_tab,
                 session_tab, history>>

\* The session table once TopTransactionContext is freed: a value
\* allocated there is gone.
AfterContextFree(tab) ==
  IF tab = NULL THEN tab
  ELSE <<[n \in Names |->
            IF tab[1][n] # <<>>
               /\ tab[1][n][1].value.ctx = "TopTransactionContext"
            THEN <<[tab[1][n][1] EXCEPT !.value = UninitDatum]>>
            ELSE tab[1][n]]>>

\* The top-level transaction ends: commit, abort (their parallel-worker
\* variants) or PREPARE TRANSACTION.  The host has closed the inner
\* subtransactions before; it frees TopTransactionContext after.
EndTransaction(event) ==
  /\ xact_state = "inprogress"
  /\ Len(sub_stack) = 1
  /\ Failed => event \in {"XACT_EVENT_ABORT", "XACT_EVENT_PARALLEL_ABORT"}
  /\ CallXactCallbacks(event)
  /\ xact_state' = "idle"
  /\ top_xid' = InvalidTransactionId
  /\ sub_stack' = <<>>
  /\ sub_counter' = 0
  /\ saved' = <<>>
  /\ written' = {}
  /\ last_set' = NoVars
  /\ session_last' =
       SessionWriterEnded(TopSubTransactionId,
                          event \in {"XACT_EVENT_ABORT",
                                     "XACT_EVENT_PARALLEL_ABORT"})
  /\ TopTransactionContext' = <<>>
  /\ session_tab' = AfterContextFree(session_tab)
  /\ res' = [op |-> "end", status |-> "ok", event |-> event]
  /\ UNCHANGED <<next_xid, last_used_txnid, current_tab>>


\* ------------------------------------------------------------------ calls
\* ereport(ERROR): the call ends with err and has changed nothing.
Raise(op, name, arg, err) ==
  /\ res' = [op |-> op, status |-> "error", err |-> err, name |-> name,
             arg |-> arg]
  /\ UNCHANGED <<host, TopTransactionContext, statics, history>>

\* set_chain overwriting the head whatever its subtransaction id.
set_chain_never_pushes(chain, subtxnid, arg) ==
  <<VariableValue(arg.isnull, arg.oid, subtxnid,
                  StoredDatum(arg, "TopTransactionContext"))>>

\* set_chain pushing a new entry whenever the name is found.
set_chain_always_pushes(chain, subtxnid, arg) ==
  <<VariableValue(arg.isnull, arg.oid, subtxnid,
                  StoredDatum(arg, "TopTransactionContext"))>> \o chain

\* The chain of a variable after set stored arg under subtxnid; chain is
\* <<>> when hash_search did not find the name.
set_chain(chain, subtxnid, arg) ==
  LET found == chain # <<>>
      vvar == VariableValue(arg.isnull, arg.oid, subtxnid,
                            StoredDatum(arg, "TopTransactionContext"))
  IN IF found /\ chain[1].subxactid < subtxnid
     THEN <<vvar>> \o chain
     ELSE <<vvar>>

\* set with the callbacks registered ahead of the argument checks.
set_registers_first(name, arg) ==
  /\ xact_state = "inprogress" /\ ~Failed
  /\ name = NullName \/ arg.oid = InvalidOid
  /\ res' = [op |-> "set", status |-> "error", name |-> name, arg |-> arg,
             err |-> IF name = NullName THEN "NullName" ELSE "UnresolvedType"]
  /\ transaction_callback_registered' = TRUE
  /\ subtransaction_callback_registered' = TRUE
  /\ xact_callbacks' = IF ~transaction_callback_registered
                       THEN xact_callbacks + 1 ELSE xact_callbacks
  /\ subxact_callbacks' = IF ~subtransaction_callback_registered
                          THEN subxact_callbacks + 1 ELSE subxact_callbacks
  /\ UNCHANGED <<xact_state, top_xid, next_xid, sub_stack, sub_counter,
                 TopTransactionContext, last_used_txnid, current_tab,
                 session_tab, history>>

set(name, arg) ==
  /\ xact_state = "inprogress" /\ ~Failed
  /\ IF name = NullName THEN Raise("set", name, arg, "NullName")
     ELSE IF arg.oid = InvalidOid THEN Raise("set", name, arg, "UnresolvedType")
     ELSE
       /\ top_xid = InvalidTransactionId => next_xid <= MaxXid
       /\ LET txnid == IF top_xid = InvalidTransactionId THEN next_xid
                       ELSE top_xid
              subtxnid == GetCurrentSubTransactionId
              tab == IF last_used_txnid # txnid THEN hash_create(txnid)
                     ELSE Tab
              chain == set_chain(tab.vars[name], subtxnid, arg)
          IN /\ top_xid' = txnid
             /\ next_xid' = IF top_xid = InvalidTransactionId
                            THEN next_xid + 1 ELSE next_xid
             /\ transaction_callback_registered' = TRUE
             /\ xact_callbacks' = IF ~transaction_callback_registered
                                  THEN xact_callbacks + 1 ELSE xact_callbacks
             /\ subtransaction_callback_registered' = TRUE
             /\ subxact_callbacks' = IF ~subtransaction_callback_registered
                                     THEN subxact_callbacks + 1
                                     ELSE subxact_callbacks
             /\ current_tab' = <<tab.addr>>
             /\ last_used_txnid' = txnid
             /\ TopTransactionContext' = <<[tab EXCEPT !.vars[name] = chain]>>
             /\ res' = [op |-> "set", status |-> "ok", name |-> name,
                        arg |-> arg, isnull |-> arg.isnull,
                        ret |-> IF arg.isnull THEN NullDatum
                                ELSE chain[1].value,
                        sub |-> subtxnid, old |-> Chain(name),
                        rewrite |-> name \in written]
             /\ written' = written \cup {name}
             /\ last_set' = [last_set EXCEPT
                               ![name] = <<[arg |-> arg, sub |-> subtxnid]>>]
             /\ UNCHANGED <<xact_state, sub_stack, sub_counter, session_tab,
                            saved, session_last>>

\* The default_value label of get and get_session.
default_value(arg) ==
  [status |-> "ok", branch |-> "default", isnull |-> arg.isnull,
   ret |-> IF arg.isnull THEN NullDatum ELSE arg.datum]

\* get_found without the comparison of the types.
get_found_untyped(var, arg) ==
  IF var # <<>>
  THEN [status |-> "ok", branch |-> "found", isnull |-> var[1].isnull,
        ret |-> IF var[1].isnull THEN NullDatum ELSE var[1].value]
  ELSE default_value(arg)

\* get_found with a null value taken for an absent one.
get_found_null_is_absent(var, arg) ==
  IF var # <<>> /\ ~var[1].isnull
  THEN IF var[1].oid # arg.oid
       THEN [status |-> "error", err |-> "TypeMismatch"]
       ELSE [status |-> "ok", branch |-> "found", isnull |-> FALSE,
             ret |-> var[1].value]
  ELSE default_value(arg)

\* get once hash_search has answered: var is <<>> (not found) or the
\* variable's chain.
get_found(var, arg) ==
  IF var # <<>>
  THEN LET vvar == var[1]
       IN IF vvar.isnull
          THEN [status |-> "ok", branch |-> "found", isnull |-> TRUE,
                ret |-> NullDatum]
          ELSE IF vvar.oid # arg.oid
          THEN [status |-> "error", err |-> "TypeMismatch"]
          ELSE [status |-> "ok", branch |-> "found", isnull |-> FALSE,
                ret |-> vvar.value]
  ELSE default_value(arg)

\* get_result without the test of last_used_txnid.
get_result_any_store(name, arg) ==
  IF top_xid = InvalidTransactionId THEN default_value(arg)
  ELSE get_found(Tab.vars[name], arg)

\* The outcome of get(name, default arg) past its argument checks.
get_result(name, arg) ==
  LET txnid == top_xid
  IN IF txnid = InvalidTransactionId \/ last_used_txnid # txnid
     THEN default_value(arg)
     ELSE get_found(Tab.vars[name], arg)

Returned(op, name, arg, out) ==
  IF out.status = "error"
  THEN [op |-> op, status |-> "error", err |-> out.err, name |-> name,
        arg |-> arg]
  ELSE [op |-> op, status |-> "ok", name |-> name, arg |-> arg,
        branch |-> out.branch, isnull |-> out.isnull, ret |-> out.ret]

get(name, arg) ==
  /\ xact_state = "inprogress" /\ ~Failed
  /\ IF name = NullName THEN Raise("get", name, arg, "NullName")
     ELSE IF arg.oid = InvalidOid THEN Raise("get", name, arg, "UnresolvedType")
     ELSE /\ res' = Returned("get", name, arg, get_result(name, arg))
          /\ UNCHANGED <<host, TopTransactionContext, statics, history>>

\* What a field that palloc returned and nothing assigned may hold.
Indeterminate == {"NULL", "garbage"}

\* The session variable after set_session stored arg; var is <<>> when
\* hash_search did not find the name, junk is what the memory of a newly
\* allocated entry holds in its previous field, which is not assigned.
set_session_var(var, arg, junk) ==
  LET found == var # <<>>
      value == StoredDatum(arg, session_context)
  IN IF found
     THEN <<SessionValue(arg.isnull, arg.oid, value, junk)>>
     ELSE <<SessionValue(arg.isnull, arg.oid, value, "NULL")>>

set_session(name, arg) ==
  /\ xact_state = "inprogress" /\ ~Failed
  /\ IF name = NullName THEN Raise("set_session", name, arg, "NullName")
     ELSE IF arg.oid = InvalidOid
     THEN Raise("set_session", name, arg, "UnresolvedType")
     ELSE \E junk \in Indeterminate :
          LET tab == IF session_tab = NULL THEN NoVars ELSE session_tab[1]
              var == set_session_var(tab[name], arg, junk)
          IN /\ session_tab' = <<[tab EXCEPT ![name] = var]>>
             /\ res' = [op |-> "set_session", status |-> "ok", name |-> name,
                        arg |-> arg, isnull |-> arg.isnull,
                        ret |-> IF arg.isnull THEN NullDatum
                                ELSE var[1].value]
             /\ session_last' = <<[arg |-> arg, aborted |-> FALSE,
                                    sub |-> GetCurrentSubTransactionId]>>
             /\ UNCHANGED <<host, TopTransactionContext, last_used_txnid,
                            current_tab, subtransaction_callback_registered,
                            transaction_callback_registered, saved, written,
                            last_set>>

\* get_session once hash_search has answered.
get_session_found(var, arg) ==
  IF var # <<>>
  THEN LET vvar == var[1]
       IN IF vvar.isnull
          THEN [status |-> "ok", branch |-> "found", isnull |-> TRUE,
                ret |-> NullDatum]
          ELSE IF vvar.oid # arg.oid
          THEN [status |-> "error", err |-> "TypeMismatch"]
          ELSE [status |-> "ok", branch |-> "found", isnull |-> FALSE,
                ret |-> vvar.value]
  ELSE default_value(arg)

\* get_session_result answering the default while no xid is assigned.
get_session_result_needs_transaction(name, arg) ==
  IF session_tab = NULL \/ top_xid = InvalidTransactionId
  THEN default_value(arg)
  ELSE get_session_found(session_tab[1][name], arg)

\* The outcome of get_session(name, default arg) past its argument checks.
get_session_result(name, arg) ==
  IF session_tab = NULL THEN default_value(arg)
  ELSE get_session_found(session_tab[1][name], arg)

get_session(name, arg) ==
  /\ xact_state = "inprogress" /\ ~Failed
  /\ IF name = NullName THEN Raise("get_session", name, arg, "NullName")
     ELSE IF arg.oid = InvalidOid
     THEN Raise("get_session", name, arg, "UnresolvedType")
     ELSE /\ res' = Returned("get_session", name, arg,
                             get_session_result(name, arg))
          /\ UNCHANGED <<host, TopTransactionContext, statics, history>>

\* ---------------------------------------------------------- specification
\* The calls that fail their argument checks.
BadCalls ==
  { <<NullName, Arg("int4", FALSE, Inline(1))>>, <<"x", UnresolvedArg>> }

OtherXactEvents ==
  {"XACT_EVENT_PRE_COMMIT", "XACT_EVENT_PARALLEL_PRE_COMMIT",
   "XACT_EVENT_PRE_PREPARE"}

EndEvents == TopLevelEnd \cup {"XACT_EVENT_PREPARE"}

Lifecycle ==
  \/ StartTransaction
  \/ AssignTransactionId
  \/ StartSubTransaction
  \/ CommitSubTransaction
  \/ AbortSubTransaction
  \/ \E event \in OtherXactEvents : XactEvent(event)
  \/ \E event \in EndEvents : EndTransaction(event)

\* The whole module.
Next ==
  \/ Lifecycle
  \/ \E call \in SetCalls \cup BadCalls : set(call[1], call[2])
  \/ \E call \in GetCalls \cup BadCalls : get(call[1], call[2])
  \/ \E call \in SessionSetCalls \cup BadCalls : set_session(call[1], call[2])
  \/ \E call \in SessionGetCalls \cup BadCalls : get_session(call[1], call[2])

Spec == Init /\ [][Next]_vars

\* The transactional store alone, with two variables in it.
TxnNext ==
  \/ Lifecycle
  \/ \E call \in TxnSetCalls \cup BadCalls : set(call[1], call[2])
  \/ \E call \in GetCalls \cup BadCalls : get(call[1], call[2])

TxnSpec == Init /\ [][TxnNext]_vars


\* ==================================================================
\* Claims on the rollback of the transactional store (TxnSpec)
\* ==================================================================

\* C1.  Once the abort of a subtransaction S has been handled, get returns
\* for every name what it returned immediately before S was opened (the
\* default when the name was absent then), whatever was set inside S.
\* The code breaks this: see C1_Scenario.
C1_AbortRestoresOpeningValue ==
  (res.op = "abort_sub" /\ xact_state = "inprogress") =>
    \A call \in GetCalls :
      get_result(call[1], call[2]) = get_found(res.before[call[1]], call[2])

\* Every entry of the chain was written under an id >= S.
AllAtOrAfter(chain, S) ==
  chain # <<>> /\ \A i \in DOMAIN chain : chain[i].subxactid >= S

\* C2.  A variable all of whose entries were written under ids >= S is
\* gone from the store once the abort of S is handled: get returns the
\* default, and a set that finds the name absent leaves a chain of one
\* entry.
C2_FullInvalidation ==
  /\ res.op = "abort_sub" =>
       \A n \in Names :
         AllAtOrAfter(res.chains[n], res.id) =>
           /\ Chain(n) = <<>>
           /\ \A call \in GetCalls :
                call[1] = n => get_result(n, call[2]) = default_value(call[2])
  /\ (res.op = "set" /\ res.status = "ok" /\ res.old = <<>>) =>
       Len(Chain(res.name)) = 1

\* A chain of two entries, both written at or after S, was removed.
C2_Witness ==
  /\ res.op = "abort_sub"
  /\ \E n \in Names :
       /\ Len(res.chains[n]) >= 2
       /\ AllAtOrAfter(res.chains[n], res.id)
       /\ Chain(n) = <<>>

\* C9.  A set that finds the name with a head written under the same
\* subtransaction id overwrites the head in place: the chain keeps its
\* length and the entries behind the head.  The code breaks this: it cuts
\* the chain behind the head.
C9_SameSubxactOverwriteKeepsChain ==
  (/\ res.op = "set" /\ res.status = "ok"
   /\ res.old # <<>> /\ res.old[1].subxactid = res.sub) =>
    /\ Len(Chain(res.name)) = Len(res.old)
    /\ Tail(Chain(res.name)) = Tail(res.old)
    /\ Chain(res.name)[1].subxactid = res.sub

\* The positions of the entries written under ids < S.
Older(chain, S) == {i \in DOMAIN chain : chain[i].subxactid < S}

First(K) == CHOOSE i \in K : \A j \in K : i <= j

\* C10.  When the abort of S has been handled, every variable left in the
\* store has a head written under an id < S; its chain is the chain it had
\* before, from the newest entry with an id < S on; a variable without such
\* an entry is gone, and one whose head was already older is unchanged.
C10_AbortCutsToNewestOlderEntry ==
  (res.op = "abort_sub" /\ xact_state = "inprogress") =>
    \A n \in Names :
      LET chain == res.chains[n]
          K == Older(chain, res.id)
      IN /\ Chain(n) # <<>> => Chain(n)[1].subxactid < res.id
         /\ Chain(n) = IF K = {} THEN <<>>
                       ELSE SubSeq(chain, First(K), Len(chain))
         /\ (chain # <<>> /\ chain[1].subxactid < res.id) => Chain(n) = chain

\* Writes under 1 < 2 < 3, then the abort of 2: one entry is left, the one
\* written under 1.
C10_Witness ==
  /\ res.op = "abort_sub" /\ res.id = 2
  /\ \E n \in Names :
       /\ Len(res.chains[n]) = 3
       /\ res.chains[n][1].subxactid = 3
       /\ res.chains[n][2].subxactid = 2
       /\ Chain(n) = <<res.chains[n][3]>>
       /\ Chain(n)[1].subxactid = 1


\* C3.  In a top-level transaction, until a set of a name happens in that
\* transaction get returns the default for it, whatever earlier
\* transactions set; once a set has happened the store is the one of this
\* transaction and holds no name that was not set in it.
C3_NewTransactionStartsEmpty ==
  /\ (res.op = "get" /\ res.name # NullName /\ res.arg.oid # InvalidOid
      /\ res.name \notin written) =>
       /\ res.status = "ok" /\ res.branch = "default"
       /\ res.isnull = res.arg.isnull
       /\ ~res.arg.isnull => res.ret = res.arg.datum
  /\ xact_state = "inprogress" =>
       \A call \in GetCalls :
         call[1] \notin written =>
           get_result(call[1], call[2]) = default_value(call[2])
  /\ (xact_state = "inprogress" /\ written # {}) =>
       /\ last_used_txnid = top_xid /\ top_xid # InvalidTransactionId
       /\ current_tab = <<top_xid>> /\ ~Dangling
       /\ \A n \in Names \ written : Tab.vars[n] = <<>>

\* get returned the default in a transaction that has its own xid, after
\* an earlier transaction had set variables.
C3_Witness ==
  /\ res.op = "get" /\ res.status = "ok" /\ res.branch = "default"
  /\ top_xid # InvalidTransactionId
  /\ last_used_txnid \notin {InvalidTransactionId, top_xid}
  /\ current_tab # NULL


\* ==================================================================
\* Claims on the four calls (Spec)
\* ==================================================================

\* The call passed its argument checks.
Checked == res.name # NullName /\ res.arg.oid # InvalidOid

\* The variable of name n in the session store, <<>> when absent.
SessionVar(n) == IF session_tab = NULL THEN <<>> ELSE session_tab[1][n]

\* What the read res reports looked up: the variable in the store of the
\* active transaction (get) or in the session store (get_session).
Looked == IF res.op = "get" THEN Chain(res.name) ELSE SessionVar(res.name)

IsRead == res.op \in {"get", "get_session"} /\ Checked

TypeMismatch == res.status = "error" /\ res.err = "TypeMismatch"

\* C4, as claimed.  A read of a present name fails with TypeMismatch
\* whenever the head's type differs from the default's, whether the head is
\* null or not, and never when the types are equal.  The code does not
\* fail on a null head.
C4_MismatchWhateverTheValue ==
  (IsRead /\ Looked # <<>>) =>
    (TypeMismatch <=> Looked[1].oid # res.arg.oid)

\* C4, amended.  A read fails with TypeMismatch exactly when the name is
\* present, its head is not null and the head's type differs from the
\* default's; a null head reads as null whatever the two types are.
C4_MismatchOfNonNullHead ==
  IsRead =>
    /\ TypeMismatch <=>
         (Looked # <<>> /\ ~Looked[1].isnull /\ Looked[1].oid # res.arg.oid)
    /\ (Looked # <<>> /\ Looked[1].isnull) =>
         (res.status = "ok" /\ res.isnull /\ res.branch = "found")

\* get failed with TypeMismatch on a head that is not null.
C4_Witness ==
  /\ res.op = "get" /\ TypeMismatch
  /\ ~Chain(res.name)[1].isnull
  /\ Chain(res.name)[1].oid # res.arg.oid

LifecycleOps ==
  {"begin", "assign_xid", "start_sub", "commit_sub", "abort_sub",
   "xact_event", "end"}

\* Bit for bit when by value; a copy of its own with the same bytes when
\* by reference.
SameValue(d, v) ==
  IF v.ctx = "inline" THEN d = v
  ELSE d.bytes = v.bytes /\ d.ctx \in {"TopTransactionContext", "TopMemoryContext"}

\* The read res returned the value v (null when v is null).
ReturnedValue(v) ==
  /\ res.status = "ok" /\ res.branch = "found"
  /\ res.isnull = v.isnull
  /\ ~v.isnull => SameValue(res.ret, v.datum)

\* C5.  No lifecycle event changes the session store, and get_session
\* returns what the latest set_session of the name stored (asked with its
\* type, or whatever the type when it stored a null), also when the
\* (sub)transaction that set_session ran in has been aborted since.
C5_SessionStoreOutlivesAborts ==
  /\ [][res'.op \in LifecycleOps => session_tab' = session_tab]_vars
  /\ []((/\ res.op = "get_session" /\ Checked /\ session_last # <<>>
         /\ \/ session_last[1].arg.isnull
            \/ session_last[1].arg.oid = res.arg.oid)
        => ReturnedValue(session_last[1].arg))

\* get_session returned the value a set_session stored in a
\* (sub)transaction that was aborted afterwards.
C5_Witness ==
  /\ res.op = "get_session" /\ res.status = "ok" /\ ~res.isnull
  /\ res.branch = "found"
  /\ session_last # <<>> /\ session_last[1].aborted
  /\ res.ret.bytes = session_last[1].arg.datum.bytes

\* C6.  A get with a default of the type of the latest set of the name in
\* this transaction (not aborted since) returns the value set, and so does
\* get_session for set_session; set and set_session return the value they
\* stored.
C6_RoundTrip ==
  /\ (/\ res.op = "get" /\ Checked /\ last_set[res.name] # <<>>
      /\ last_set[res.name][1].arg.oid = res.arg.oid)
     => ReturnedValue(last_set[res.name][1].arg)
  /\ (/\ res.op = "get_session" /\ Checked /\ session_last # <<>>
      /\ session_last[1].arg.oid = res.arg.oid)
     => ReturnedValue(session_last[1].arg)
  /\ (res.op \in {"set", "set_session"} /\ res.status = "ok") =>
       /\ res.isnull = res.arg.isnull
       /\ ~res.arg.isnull =>
            /\ SameValue(res.ret, res.arg.datum)
            /\ res.ret = (IF res.op = "set" THEN Chain(res.name)
                          ELSE SessionVar(res.name))[1].value

\* get returned, as a plain copy, the varlena that set was given
\* compressed, after a subtransaction had been opened and closed between.
C6_Witness ==
  /\ res.op = "get" /\ res.status = "ok" /\ ~res.isnull
  /\ last_set[res.name] # <<>>
  /\ last_set[res.name][1].arg.datum.form = "compressed"
  /\ last_set[res.name][1].sub < sub_counter
  /\ res.ret.form = "plain"
  /\ res.ret.bytes = last_set[res.name][1].arg.datum.bytes

\* C7.  A read returns the default exactly when the name is absent: for
\* get, no set has happened in the active transaction (so when it has no
\* xid) or the store lacks the name; for get_session, there is no session
\* store or it lacks the name.  An absent name is no error, and a present
\* null head reads as null, not as the default.
C7_DefaultIffAbsent ==
  IsRead =>
    LET absent == IF res.op = "get"
                  THEN written = {} \/ TopTransactionContext[1].vars[res.name] = <<>>
                  ELSE session_tab = NULL \/ session_tab[1][res.name] = <<>>
    IN /\ (res.status = "ok" /\ res.branch = "default") <=> absent
       /\ absent =>
            /\ res.status = "ok" /\ res.isnull = res.arg.isnull
            /\ ~res.arg.isnull => res.ret = res.arg.datum
       /\ (res.op = "get" /\ top_xid = InvalidTransactionId) => absent
       /\ (~absent /\ Looked[1].isnull) =>
            (res.status = "ok" /\ res.isnull /\ res.branch = "found")

\* A present null read as null by a call whose default is not null.
C7_Witness ==
  /\ IsRead /\ res.status = "ok" /\ res.branch = "found"
  /\ res.isnull /\ ~res.arg.isnull

\* C8.  A call that fails (NullName, UnresolvedType, TypeMismatch) leaves
\* the two stores, the bound transaction id and the registrations as they
\* were.
C8_FailedCallChangesNothing ==
  [][res'.status = "error" =>
       UNCHANGED <<TopTransactionContext, last_used_txnid, current_tab,
                   session_tab, subtransaction_callback_registered,
                   transaction_callback_registered, xact_callbacks,
                   subxact_callbacks>>]_vars

\* set failed on its value's type in a transaction that had set variables.
C8_Witness ==
  /\ res.op = "set" /\ res.status = "error" /\ res.err = "UnresolvedType"
  /\ written # {} /\ TopTransactionContext # <<>>


\* ==================================================================
\* Claims on the shape of the chains (TxnSpec)
\* ==================================================================

\* The subtransaction ids strictly decrease from the head on.
StrictlyDecreasing(chain) ==
  \A i \in 1..(Len(chain) - 1) : chain[i].subxactid > chain[i + 1].subxactid

\* C11.  In every reachable state, along the chain of every variable of
\* the transactional store the subtransaction ids strictly decrease from
\* the head through the previous links.
C11_ChainIdsStrictlyDecrease ==
  TopTransactionContext # <<>> =>
    \A n \in Names : StrictlyDecreasing(TopTransactionContext[1].vars[n])

\* A chain of three entries, right after the innermost subtransaction was
\* released.
C11_Witness ==
  /\ TopTransactionContext # <<>>
  /\ \E n \in Names : Len(TopTransactionContext[1].vars[n]) = 3
  /\ res.op = "commit_sub"


\* C12.  A set that finds the name with a head written under a lower
\* subtransaction id pushes: the new head carries the current id and the
\* value set, the rest of the chain is the chain as it was, old head
\* included and untouched, so the chain grows by exactly one.
C12_PushKeepsOldHead ==
  (/\ res.op = "set" /\ res.status = "ok"
   /\ res.old # <<>> /\ res.old[1].subxactid < res.sub)
  => /\ Len(Chain(res.name)) = Len(res.old) + 1
     /\ Tail(Chain(res.name)) = res.old
     /\ Chain(res.name)[1].subxactid = res.sub
     /\ Chain(res.name)[1].isnull = res.arg.isnull
     /\ Chain(res.name)[1].oid = res.arg.oid

\* A push onto a chain of two entries, with a value of another type than
\* the old head's.
C12_Witness ==
  /\ res.op = "set" /\ res.status = "ok"
  /\ Len(res.old) = 2 /\ res.old[1].subxactid < res.sub
  /\ res.old[1].oid # res.arg.oid
  /\ Len(Chain(res.name)) = 3


\* C13.  Whenever set overwrites in place the head of a variable that is
\* already present (the head's id is not lower than the current one), the
\* current subtransaction id is not lower than the head's stored id.  Not
\* so: a released subtransaction leaves its id on the entries it wrote, and
\* a set in its parent then arrives with a lower id.
C13_OverwriteNeverWithLowerId ==
  (/\ res.op = "set" /\ res.status = "ok"
   /\ res.old # <<>> /\ ~(res.old[1].subxactid < res.sub))
  => res.sub >= res.old[1].subxactid


\* The abort handler run for subtransaction S on the table tab.
Abort(S, tab) == subtransaction_callback("SUBXACT_EVENT_ABORT_SUB", S, tab)

SubIds == 1..MaxSubId

C15_EndedStoreNeverAccessed ==
  [][/\ (res'.op = "abort_sub" /\ subxact_callbacks > 0 /\ current_tab # NULL)
          => ~Dangling
     /\ (res'.op = "get" /\ res'.name # NullName /\ res'.arg.oid # InvalidOid
         /\ Bound) => ~Dangling
     /\ (res'.op = "set" /\ res'.status = "ok") => ~Dangling']_vars


\* C16.  Each of the two callbacks is in the host's list at most once, its
\* registered flag is true exactly when it is there, and from the first
\* set of a top-level transaction to the transaction's end both are
\* there, so that the abort of a subtransaction after a set is handled:
\* it leaves every chain as the abort handler leaves it.
C16_SubscribedOnceWhileInUse ==
  /\ xact_callbacks \in {0, 1} /\ subxact_callbacks \in {0, 1}
  /\ transaction_callback_registered <=> (xact_callbacks = 1)
  /\ subtransaction_callback_registered <=> (subxact_callbacks = 1)
  /\ written # {} => (xact_callbacks = 1 /\ subxact_callbacks = 1)
  /\ (res.op = "abort_sub" /\ written # {}) =>
       \A n \in Names :
         Chain(n) = IF res.chains[n] = <<>> THEN <<>>
                    ELSE unwind(res.chains[n], 1, res.id)

\* A set of a name already set, in the second transaction that sets
\* variables: the callbacks were unregistered and registered again.
C16_Witness ==
  /\ res.op = "set" /\ res.status = "ok" /\ res.rewrite
  /\ top_xid = 2 /\ last_used_txnid = 2
  /\ xact_callbacks = 1 /\ subxact_callbacks = 1


\* ==================================================================
\* Claims on the session store and on what each step leaves alone (Spec)
\* ==================================================================

\* C17.  In every reachable state every variable of the session store has
\* a chain of exactly one entry: the previous link of its value is NULL.
\* Not so: the entry that set_session allocates for a name that already
\* exists never has its previous field assigned.
C17_SessionChainsOfOne ==
  session_tab # NULL =>
    \A n \in Names :
      session_tab[1][n] # <<>> =>
        (Len(session_tab[1][n]) = 1 /\ session_tab[1][n][1].previous = "NULL")


\* C18.  The start of a transaction or of a subtransaction, the release
\* of a subtransaction and the events of a top-level transaction that do
\* not end it change nothing: the chains with the ids in their entries, the
\* bound transaction id, the table pointer, the flags, the host's lists
\* and the session store are as before; a release does not re-tag.  On
\* XACT_EVENT_PREPARE too the module changes none of its own state (the
\* host frees the transaction's memory).
C18_OtherEventsChangeNothing ==
  [][/\ res'.op \in {"begin", "assign_xid", "start_sub", "commit_sub",
                     "xact_event"}
          => UNCHANGED <<TopTransactionContext, statics, xact_callbacks,
                         subxact_callbacks>>
     /\ (res'.op = "end" /\ res'.event = "XACT_EVENT_PREPARE")
          => UNCHANGED <<statics, xact_callbacks, subxact_callbacks>>]_vars

\* A subtransaction was released and the entry it pushed still carries
\* its id.
C18_Witness ==
  /\ res.op = "commit_sub"
  /\ \E n \in Names :
       /\ Len(Chain(n)) >= 2
       /\ Chain(n)[1].subxactid = res.id
       /\ Chain(n)[1].subxactid > GetCurrentSubTransactionId


\* C19.  The two stores are independent.  set and get leave the session
\* store as it is; set_session and get_session leave the transactional
\* store, the bound transaction id, the table pointer, the registrations
\* and the host's transaction as they are; get and get_session change no
\* state at all.  What get_session answers is determined by the session
\* store and its arguments, whether or not the transaction has an xid or
\* a store of its own, and what get answers by the transactional store and
\* its arguments.
C19_StoresAreIndependent ==
  /\ [][/\ res'.op \in {"set", "get"} => session_tab' = session_tab
        /\ res'.op \in {"set_session", "get_session"}
             => UNCHANGED <<host, TopTransactionContext, last_used_txnid,
                            current_tab, subtransaction_callback_registered,
                            transaction_callback_registered>>
        /\ res'.op \in {"get", "get_session"}
             => UNCHANGED <<host, TopTransactionContext, statics>>]_vars
  /\ []((res.op = "get_session" /\ Checked) =>
          res = Returned("get_session", res.name, res.arg,
                         get_session_found(SessionVar(res.name), res.arg)))
  /\ []((res.op = "get" /\ Checked) =>
          res = Returned("get", res.name, res.arg,
                         get_found(Chain(res.name), res.arg)))

\* get_session returned the session value of a name that the
\* transactional store holds with another type.
C19_Witness ==
  /\ res.op = "get_session" /\ res.status = "ok" /\ res.branch = "found"
  /\ ~res.isnull
  /\ Chain(res.name) # <<>>
  /\ Chain(res.name)[1].oid # SessionVar(res.name)[1].oid
  /\ res.ret = SessionVar(res.name)[1].value

====
